---- MODULE Spec2Model ----
(***************************************************************************)
(* A model of app.py, the Streamlit "Time Series Chart Generator":         *)
(*   - the line-label loop of generate_chart (above/below placement),      *)
(*   - apply_filter and process_data (filtering and yearly aggregation),   *)
(*   - the script itself, rerun by Streamlit on every user action, with    *)
(*     its session state and the data bound to the download buttons.       *)
(* Python sequences are 0-based, TLA+ sequences 1-based: index i of the    *)
(* code is index i+1 here.                                                 *)
(***************************************************************************)
EXTENDS Integers, Sequences, FiniteSets, TLC

VARIABLES
    line_data,      \* generate_chart: final_data['row_count'].values
    labels,         \* generate_chart: the line labels drawn so far, in order
    pc,             \* how far the script (or the function under check) has run
    df_base,        \* the loaded rows (the df handed to apply_filter)
    filter_config,  \* the filter_config dict handed to apply_filter
    df_filtered,    \* apply_filter's result (the df handed to process_data)
    year_range,     \* (start_year, end_year)
    category_column,\* 'None' or the name of the category column
    final_data,     \* process_data's first result
    process_error,  \* process_data's second result
    uploaded_file,  \* the file held by the file_uploader widget, or NoFile
    session,        \* st.session_state
    shown,          \* the chart st.pyplot put on screen in the last run, if any
    download_png,   \* the data bound to the PNG download button in the last run
    download_svg,   \* the data bound to the SVG download button in the last run
    reruns,         \* the number of user actions (and so reruns) so far
    fc_value,       \* format_currency: its argument
    label_text,     \* format_currency: its result
    num_bars,       \* generate_chart: len(final_data)
    font_size       \* generate_chart: DYNAMIC_FONT_SIZE

lineVars == <<line_data, labels>>
dataVars == <<df_base, filter_config, df_filtered, year_range, category_column,
              final_data, process_error>>
appVars == <<uploaded_file, session, shown, download_png, download_svg, reruns>>
textVars == <<fc_value, label_text, num_bars, font_size>>
vars == <<lineVars, pc, dataVars, appVars, textVars>>

(***************************************************************************)
(* Bounds of the model.                                                    *)
(***************************************************************************)
MaxPoints == 4      \* longest count sequence handed to the label loop
MaxCount == 3       \* largest row count of a bucket in the label loop
MaxRows == 2        \* most rows of a data frame in SpecFilter and SpecAgg
MaxReruns == 6      \* most user actions on the page in SpecApp
MaxBars == 60       \* most buckets of a chart in SpecFont
MaxBuckets == 2     \* most buckets of a chart in SpecChart

(***************************************************************************)
(* generate_chart, the line-label loop (app.py 557-610).                   *)
(* A label is [above, branch]: place_above and the branch that set it.     *)
(***************************************************************************)
Label(above, branch) == [above |-> above, branch |-> branch]

\* Faulty variant of FirstPointLabel: the falling branch is missing.
FirstPointLabelNoFall(y, y_next) ==
    IF y_next > y THEN Label(TRUE, "first_rising")
    ELSE Label(TRUE, "first_default")

\* i == 0: compare with the right neighbour; place_above keeps its initial
\* True when neither comparison holds.
FirstPointLabel(y, y_next) ==
    IF y_next > y THEN Label(TRUE, "first_rising")
    ELSE IF y_next < y THEN Label(FALSE, "first_falling")
    ELSE Label(TRUE, "first_default")

\* Faulty variant of LastPointLabel: the two comparisons are swapped.
LastPointLabelSwapped(y_prev, y) ==
    IF y_prev > y THEN Label(TRUE, "last_rising")
    ELSE IF y_prev < y THEN Label(FALSE, "last_falling")
    ELSE Label(TRUE, "last_default")

\* i == num_points - 1: compare with the left neighbour.
LastPointLabel(y_prev, y) ==
    IF y_prev < y THEN Label(TRUE, "last_rising")
    ELSE IF y_prev > y THEN Label(FALSE, "last_falling")
    ELSE Label(TRUE, "last_default")

\* Faulty variant of InteriorPointLabel: the falling-then-flat branch is missing.
InteriorPointLabelNoFallFlat(y_prev, y, y_next) ==
    LET is_peak == (y > y_prev) /\ (y > y_next)
        is_valley == (y < y_prev) /\ (y < y_next)
    IN  IF is_peak THEN Label(TRUE, "peak")
        ELSE IF is_valley THEN Label(FALSE, "valley")
        ELSE IF y > y_prev /\ y < y_next THEN Label(TRUE, "rising")
        ELSE IF y < y_prev /\ y > y_next THEN Label(FALSE, "falling")
        ELSE IF y_prev = y /\ y_next > y THEN Label(TRUE, "flat_rising")
        ELSE IF y_prev = y /\ y_next < y THEN Label(FALSE, "flat_falling")
        ELSE IF y_prev < y /\ y_next = y THEN Label(TRUE, "rising_flat")
        ELSE Label(TRUE, "default")

\* interior point: the if/elif chain on (y_prev, y, y_next).
InteriorPointLabel(y_prev, y, y_next) ==
    LET is_peak == (y > y_prev) /\ (y > y_next)
        is_valley == (y < y_prev) /\ (y < y_next)
    IN  IF is_peak THEN Label(TRUE, "peak")
        ELSE IF is_valley THEN Label(FALSE, "valley")
        ELSE IF y > y_prev /\ y < y_next THEN Label(TRUE, "rising")
        ELSE IF y < y_prev /\ y > y_next THEN Label(FALSE, "falling")
        ELSE IF y_prev = y /\ y_next > y THEN Label(TRUE, "flat_rising")
        ELSE IF y_prev = y /\ y_next < y THEN Label(FALSE, "flat_falling")
        ELSE IF y_prev < y /\ y_next = y THEN Label(TRUE, "rising_flat")
        ELSE IF y_prev > y /\ y_next = y THEN Label(FALSE, "falling_flat")
        ELSE Label(TRUE, "default")

\* The body of `for i, y in enumerate(line_data)` for the point at index i
\* (1-based) of the sequence data.
PlaceLabel(data, i) ==
    LET num_points == Len(data)
        y == data[i]
    IN  IF num_points = 1 THEN Label(TRUE, "single")
        ELSE IF i = 1 THEN FirstPointLabel(y, data[i + 1])
        ELSE IF i = num_points THEN LastPointLabel(data[i - 1], y)
        ELSE InteriorPointLabel(data[i - 1], y, data[i + 1])

\* All labels of a count sequence, as the finished loop leaves them.
LineLabels(data) == [i \in 1..Len(data) |-> PlaceLabel(data, i)]

SeqsUpTo(S, n) == UNION {[1..k -> S] : k \in 1..n}

(***************************************************************************)
(* Data frames.  A frame is a sequence of rows; a row has the date column  *)
(* (already parsed by load_data), the value column and one further column, *)
(* which the user may choose as category column and as filter column.      *)
(* A cell of that column is a string, a number (a mixed-type spreadsheet   *)
(* column) or missing (NaN); text is what astype(str) / str() makes of it. *)
(***************************************************************************)
DATE_COLUMN == "Deal date"
VALUE_COLUMN == "Amount raised (converted to GBP)"
ExtraColumn == "Stage"
None == "None"

StrCell(s) == [kind |-> "str", text |-> s]
NumCell(t) == [kind |-> "num", text |-> t]
NaN == [kind |-> "nan", text |-> "nan"]

Cells == {StrCell("A"), StrCell("B"), NumCell("5"), NaN}

Date(y, m) == [year |-> y, month |-> m]
Dates == {Date(2010, 6), Date(2015, 1), Date(2015, 12), Date(2020, 6)}
Years == {d.year : d \in Dates}
Amounts == {1, 2}

Rows == [date : Dates, value : Amounts, extra : Cells]
Frames == SeqsUpTo(Rows, MaxRows)

\* Series.dt.year
YearOf(d) == d.year
\* Series.astype(str)
AsStr(cell) == cell.text
\* Series.isna() / dropna(): a missing cell
IsNa(cell) == cell.kind = "nan"

RECURSIVE SumValues(_)
SumValues(rows) ==
    IF rows = <<>> THEN 0 ELSE Head(rows).value + SumValues(Tail(rows))

RECURSIVE SortedSeq(_)
SortedSeq(S) ==
    IF S = {} THEN <<>>
    ELSE LET m == CHOOSE x \in S : \A z \in S : x <= z
         IN  <<m>> \o SortedSeq(S \ {m})

Range(f) == {f[i] : i \in DOMAIN f}

(***************************************************************************)
(* apply_filter (app.py 405-420).                                          *)
(***************************************************************************)
FilterConfig(enabled, column, include, values) ==
    [enabled |-> enabled, column |-> column, include |-> include, values |-> values]

\* Series.isin(values): element-wise membership by Python equality.  The
\* values are the strings picked in the multiselect, so a string cell is in
\* values iff its text is, and a number or a missing cell equals no string.
IsIn(cell, values) == cell.kind = "str" /\ cell.text \in values

\* Faulty variant of ApplyFilter: an empty value set is applied as a filter.
ApplyFilterEmptyValues(df, config) ==
    IF ~config.enabled \/ config.column = None THEN df
    ELSE LET values == config.values
             is_include == config.include
         IN  IF is_include
             THEN SelectSeq(df, LAMBDA r : IsIn(r.extra, values))
             ELSE SelectSeq(df, LAMBDA r : ~IsIn(r.extra, values))

ApplyFilter(df, config) ==
    IF ~config.enabled \/ config.column = None THEN df
    ELSE LET values == config.values
             is_include == config.include
         IN  IF values # {}
             THEN IF is_include
                  THEN SelectSeq(df, LAMBDA r : IsIn(r.extra, values))
                  ELSE SelectSeq(df, LAMBDA r : ~IsIn(r.extra, values))
             ELSE df

(***************************************************************************)
(* process_data (app.py 422-449).                                          *)
(* final_data is None (NoFrame) or a frame of aggregated rows              *)
(* [time_period, values, row_count], values mapping each value column of   *)
(* the frame (VALUE_COLUMN, or one column per category) to its sum.        *)
(***************************************************************************)
NoFrame == [none |-> TRUE, rows |-> <<>>]
Frame(rows) == [none |-> FALSE, rows |-> rows]
NO_DATA_MSG == "No data available for the selected year range."

\* Faulty variant of Between: the right end is exclusive.
BetweenExclusiveEnd(x, left, right) == left <= x /\ x < right

\* Series.between(left, right, inclusive='both')
Between(x, left, right) == left <= x /\ x <= right

\* df[df[DATE_COLUMN].dt.year.between(start_year, end_year, inclusive='both')]
ChartData(df, range) ==
    SelectSeq(df, LAMBDA r : Between(YearOf(r.date), range[1], range[2]))

\* Faulty variant of RowCounts: counts a period's distinct categories, not its rows.
RowCountsDistinctCells(chart_data) ==
    LET periods == {YearOf(r.date) : r \in Range(chart_data)}
    IN  [p \in periods |->
            Cardinality({r.extra : r \in {q \in Range(chart_data) : YearOf(q.date) = p}})]

\* groupby('time_period').size(): the periods of all rows, each with its
\* number of rows.
RowCounts(chart_data) ==
    LET periods == {YearOf(r.date) : r \in Range(chart_data)}
    IN  [p \in periods |-> Len(SelectSeq(chart_data, LAMBDA r : YearOf(r.date) = p))]

\* groupby('time_period').agg({VALUE_COLUMN: 'sum'})
GroupedByPeriod(chart_data) ==
    LET periods == {YearOf(r.date) : r \in Range(chart_data)}
    IN  [p \in periods |->
            SumValues(SelectSeq(chart_data, LAMBDA r : YearOf(r.date) = p))]

\* groupby(['time_period', category_column]).agg({VALUE_COLUMN: 'sum'}):
\* groupby drops the rows whose key is missing (dropna=True), so the groups
\* are the (period, category) pairs of the rows with a category.
GroupedByPeriodCategory(chart_data) ==
    LET keyed == SelectSeq(chart_data, LAMBDA r : ~IsNa(r.extra))
        keys == {<<YearOf(r.date), r.extra>> : r \in Range(keyed)}
    IN  [k \in keys |->
            SumValues(SelectSeq(keyed, LAMBDA r : YearOf(r.date) = k[1] /\ r.extra = k[2]))]

\* Faulty variant of Pivot: no fillna(0), absent pairs stay missing.
PivotNoFill(grouped) ==
    LET index == {k[1] : k \in DOMAIN grouped}
        columns == {k[2] : k \in DOMAIN grouped}
    IN  [p \in index |->
            [c \in {d \in columns : <<p, d>> \in DOMAIN grouped} |-> grouped[<<p, c>>]]]

\* grouped.pivot(index='time_period', columns=category_column,
\*               values=VALUE_COLUMN).fillna(0).  An empty grouped frame (no
\* in-range row has a category) pivots to a frame without rows.
Pivot(grouped) ==
    LET index == {k[1] : k \in DOMAIN grouped}
        columns == {k[2] : k \in DOMAIN grouped}
    IN  [p \in index |->
            [c \in columns |->
                IF <<p, c>> \in DOMAIN grouped THEN grouped[<<p, c>>] ELSE 0]]

\* left.merge(row_counts, on='time_period'): an inner join that keeps the
\* order of the left frame, whose index groupby and pivot have sorted.
Merge(summed, row_counts) ==
    LET periods == SortedSeq(DOMAIN summed \cap DOMAIN row_counts)
    IN  [i \in 1..Len(periods) |->
            [time_period |-> periods[i], values |-> summed[periods[i]],
             row_count |-> row_counts[periods[i]]]]

ProcessData(df, range, column) ==
    LET chart_data == ChartData(df, range)
    IN  IF chart_data = <<>>
        THEN [final_data |-> NoFrame, process_error |-> NO_DATA_MSG]
        ELSE IF column # None
        THEN LET grouped == GroupedByPeriodCategory(chart_data)
                 row_counts == RowCounts(chart_data)
                 pivot_data == Pivot(grouped)
             IN  [final_data |-> Frame(Merge(pivot_data, row_counts)),
                  process_error |-> None]
        ELSE LET grouped == GroupedByPeriod(chart_data)
                 row_counts == RowCounts(chart_data)
                 summed == [p \in DOMAIN grouped |-> [c \in {VALUE_COLUMN} |-> grouped[p]]]
             IN  [final_data |-> Frame(Merge(summed, row_counts)),
                  process_error |-> None]

(***************************************************************************)
(* load_data (app.py 371-403).  An uploaded file has a header for its date *)
(* column and one for its value column (each possibly padded with blanks), *)
(* the further column ExtraColumn, and raw rows; a raw date is a Date, and *)
(* one with month 13 is text that pd.to_datetime cannot parse.             *)
(***************************************************************************)
ALT_DATE_COLUMN == "Date the participant received the grant"
ALT_VALUE_COLUMN == "Amount received (converted to GBP)"

Header(name, padded) == [name |-> name, padded |-> padded]
\* Index.str.strip()
Strip(header) == header.name

File(date_header, value_header, rows) ==
    [date_header |-> date_header, value_header |-> value_header, rows |-> rows]
NoFile == [date_header |-> Header("", FALSE), value_header |-> Header("", FALSE),
           rows |-> <<>>, none |-> TRUE]

NaT == Date(0, 0)
\* pd.to_datetime(..., errors='coerce')
ToDatetime(cell) == IF cell.month \in 1..12 THEN cell ELSE NaT

MissingColumnError(primary, alias) == [missing |-> primary, names |-> {primary, alias}]

Loaded(data, error, original_value_column) ==
    [data |-> data, error |-> error, original_value_column |-> original_value_column]

\* DataFrame.rename(columns={old: new})
Rename(columns, old, new) == (columns \ {old}) \cup {new}

\* `if primary not in data.columns: if alias in data.columns: rename`
RenameAlias(columns, primary, alias) ==
    IF primary \notin columns /\ alias \in columns
    THEN Rename(columns, alias, primary) ELSE columns

\* What load_data returns for a file with the given column names: the
\* primary name of a column is among them after the renaming unless neither
\* of its names was.
LoadColumns(file, columns) ==
    LET dated == RenameAlias(columns, DATE_COLUMN, ALT_DATE_COLUMN)
        parsed == [i \in 1..Len(file.rows) |->
                      [file.rows[i] EXCEPT !.date = ToDatetime(@)]]
        data == SelectSeq(parsed, LAMBDA r : r.date # NaT)
    IN  IF DATE_COLUMN \notin dated
        THEN Loaded(NoFrame, MissingColumnError(DATE_COLUMN, ALT_DATE_COLUMN), None)
        ELSE IF {VALUE_COLUMN, ALT_VALUE_COLUMN} \cap dated = {}
        THEN Loaded(NoFrame, MissingColumnError(VALUE_COLUMN, ALT_VALUE_COLUMN), None)
        ELSE Loaded([none |-> FALSE, rows |-> data,
                     columns |-> RenameAlias(dated, VALUE_COLUMN, ALT_VALUE_COLUMN)],
                    None,
                    IF VALUE_COLUMN \in dated THEN "raised" ELSE "received")

\* Faulty variant of LoadData: the column names are not stripped.
LoadDataNoStrip(file) ==
    LoadColumns(file, {IF file.date_header.padded THEN "" ELSE file.date_header.name,
                       IF file.value_header.padded THEN "" ELSE file.value_header.name,
                       ExtraColumn})

\* The data returned carries, besides its rows, the names of its columns.
LoadData(file) ==
    LoadColumns(file, {Strip(file.date_header), Strip(file.value_header), ExtraColumn})

(***************************************************************************)
(* format_currency (app.py 326-360).                                       *)
(* A float is modelled by its decimal value, sign, whole part and          *)
(* hundredths, and by the side on which the binary quotient value/divisor  *)
(* lies of that decimal (-1 below, 0 exactly on it, 1 above): the side     *)
(* decides the rounding of '.3g' when the decimal is a tie between two     *)
(* three-digit renderings, and nothing else.  A text is the record of its  *)
(* parts; the symbol is the sequence of the code points of the literal.    *)
(***************************************************************************)
Float(neg, int, cents, side) == [neg |-> neg, int |-> int, cents |-> cents, side |-> side]
\* float(n) of a natural number n
Exact(n) == Float(FALSE, n, 0, 0)

\* the literal between sign and digits (app.py 333, 360): U+00C2 U+00A3
CURRENCY_SYMBOL == <<194, 163>>

Text(sign, number, unit) ==
    [sign |-> sign, symbol |-> CURRENCY_SYMBOL, whole |-> number.whole,
     decimals |-> number.decimals, exponent |-> number.exponent, unit |-> unit]

\* A rendered number: whole part, the digits after the point and, in
\* scientific notation, the exponent (0 in fixed notation).
Number(whole, decimals, exponent) ==
    [whole |-> whole, decimals |-> decimals, exponent |-> exponent]

RECURSIVE Digits(_)
Digits(n) == IF n = 0 THEN <<>> ELSE Append(Digits(n \div 10), n % 10)

RECURSIVE Pow10(_)
Pow10(k) == IF k = 0 THEN 1 ELSE 10 * Pow10(k - 1)

RECURSIVE StripLeft(_)
StripLeft(ds) == IF ds # <<>> /\ Head(ds) = 0 THEN StripLeft(Tail(ds)) ELSE ds

RECURSIVE StripRight(_)
StripRight(ds) ==
    IF ds # <<>> /\ ds[Len(ds)] = 0 THEN StripRight(SubSeq(ds, 1, Len(ds) - 1)) ELSE ds

RECURSIVE DigitsValue(_)
DigitsValue(ds) ==
    IF ds = <<>> THEN 0 ELSE 10 * DigitsValue(SubSeq(ds, 1, Len(ds) - 1)) + ds[Len(ds)]

\* the decimal digits of x_abs, the last two being the hundredths
AllDigits(x) == Digits(x.int) \o <<x.cents \div 10, x.cents % 10>>
\* the decimal exponent of the first significant digit of x_abs / 10^shift
Exponent(x, shift) ==
    Len(Digits(x.int)) - shift - (Len(AllDigits(x)) - Len(StripLeft(AllDigits(x)))) - 1

\* Rounding to three significant digits: to nearest, and at a decimal tie by
\* the side of the binary value, a value exactly on the tie going to even.
RoundsUp(m, rest, side) ==
    IF rest = <<>> \/ rest[1] < 5 THEN FALSE
    ELSE IF rest[1] > 5 \/ (\E i \in 2..Len(rest) : rest[i] # 0) THEN TRUE
    ELSE side > 0 \/ (side = 0 /\ m % 2 = 1)
Mantissa(sig) == DigitsValue(SubSeq(sig \o <<0, 0>>, 1, 3))
Round3(sig, side) ==
    Mantissa(sig) + (IF RoundsUp(Mantissa(sig), SubSeq(sig, 4, Len(sig)), side) THEN 1 ELSE 0)

\* The text of mant * 10^(exp - 2), mant in 100..999, as the 'g' format
\* writes it: trailing zeros removed, fixed notation for exp in -4..2 and
\* scientific notation otherwise.
RenderG(mant, exp) ==
    IF exp < -4 \/ exp >= 3
    THEN Number(mant \div 100, StripRight(<<(mant \div 10) % 10, mant % 10>>), exp)
    ELSE IF exp >= 0
    THEN Number(mant \div Pow10(2 - exp), StripRight(SubSeq(Digits(mant), exp + 2, 3)), 0)
    ELSE Number(0, StripRight([i \in 1..(-exp - 1) |-> 0] \o Digits(mant)), 0)
\* a mantissa rounded up to 1000 is 1.00 with the next exponent
Render(rounded, exp) ==
    IF rounded = 1000 THEN RenderG(100, exp + 1) ELSE RenderG(rounded, exp)

\* f"{scaled:.3g}" for scaled = x_abs / 10^shift
FormatG3(x, shift) == Render(Round3(StripLeft(AllDigits(x)), x.side), Exponent(x, shift))

\* float(s).is_integer()
IsInteger(s) == s.exponent >= 0 /\ Len(s.decimals) <= s.exponent

\* str(int(float(s))) of a rendered number s with an integer value
IntText(s) ==
    Number(s.whole * Pow10(s.exponent)
               + DigitsValue(s.decimals \o [i \in 1..(s.exponent - Len(s.decimals)) |-> 0]),
           <<>>, 0)

\* app.py 353-355
Normalise(s) == IF IsInteger(s) THEN IntText(s) ELSE s

\* unit and divisor (as a power of ten) of x_abs (app.py 337-348)
Unit(x) ==
    IF x.int >= 1000000000 THEN "b"
    ELSE IF x.int >= 1000000 THEN "m"
    ELSE IF x.int >= 1000 THEN "k"
    ELSE ""
Shift(unit) == IF unit = "b" THEN 9 ELSE IF unit = "m" THEN 6 ELSE IF unit = "k" THEN 3 ELSE 0

FormatCurrency(value) ==
    IF value.int = 0 /\ value.cents = 0 THEN Text("", Number(0, <<>>, 0), "")
    ELSE Text(IF value.neg THEN "-" ELSE "",
              Normalise(FormatG3(value, Shift(Unit(value)))), Unit(value))

(***************************************************************************)
(* is_dark_color (app.py 362-369).  to_rgb gives the components of a hex   *)
(* colour as c/255 and raises ValueError for a text that is no colour; the *)
(* colours are those of the page, black and white.  With c in 0..255 the   *)
(* luminance is (2126 r + 7152 g + 722 b) / 2550000, and no colour of the  *)
(* table is near enough to 0.5 for float rounding to matter.               *)
(***************************************************************************)
InvalidColor == <<>>
ToRgb(hex_color) ==
    CASE hex_color = "#4A3F8F" -> <<74, 63, 143>>
      [] hex_color = "#6B5FA0" -> <<107, 95, 160>>
      [] hex_color = "#C8C3E0" -> <<200, 195, 224>>
      [] hex_color = "#9B94C7" -> <<155, 148, 199>>
      [] hex_color = "#1A1A1A" -> <<26, 26, 26>>
      [] hex_color = "#000000" -> <<0, 0, 0>>
      [] hex_color = "#FFFFFF" -> <<255, 255, 255>>
      [] OTHER -> InvalidColor

\* Faulty variant of IsDarkColor: the comparison is the wrong way round.
IsDarkColorInverted(hex_color) ==
    LET rgb == ToRgb(hex_color)
    IN  IF rgb = InvalidColor THEN FALSE
        ELSE 2 * (2126 * rgb[1] + 7152 * rgb[2] + 722 * rgb[3]) > 2550000

IsDarkColor(hex_color) ==
    LET rgb == ToRgb(hex_color)
    IN  IF rgb = InvalidColor THEN FALSE
        ELSE 2 * (2126 * rgb[1] + 7152 * rgb[2] + 722 * rgb[3]) < 2550000

(***************************************************************************)
(* generate_chart, the label font size (app.py 459-467).  150 / num_bars   *)
(* is a float; it is kept as the fraction it stands for, min and max       *)
(* compare fractions, and int() truncates.                                 *)
(***************************************************************************)
Frac(num, den) == [num |-> num, den |-> den]
Less(a, b) == a.num * b.den < b.num * a.den
\* min(a, b) and max(a, b) of Python: the first argument unless the second
\* is strictly smaller (greater).
Min(a, b) == IF Less(b, a) THEN b ELSE a
Max(a, b) == IF Less(a, b) THEN b ELSE a
\* int(x) for x >= 0
Int_(x) == x.num \div x.den

\* Faulty variant of FontSize: the lower limit is not applied.
FontSizeNoMin(n) ==
    LET max_size == Frac(22, 1)
    IN  IF n > 0
        THEN LET scale_factor == Frac(150, n)
             IN  Int_(Min(max_size, scale_factor))
        ELSE 12

FontSize(n) ==
    LET min_size == Frac(8, 1)
        max_size == Frac(22, 1)
    IN  IF n > 0
        THEN LET scale_factor == Frac(150, n)
             IN  Int_(Max(min_size, Min(max_size, scale_factor)))
        ELSE 12

(***************************************************************************)
(* generate_chart (app.py 452-645): the figure as the record of what is    *)
(* drawn.  Category labels sort as Python sorts the strings.               *)
(***************************************************************************)
CATEGORY_COLORS == <<"#4A3F8F", "#C8C3E0">>
PREDEFINED_COLORS == <<"#4A3F8F", "#6B5FA0", "#C8C3E0">>
SINGLE_BAR_COLOR == "#9B94C7"
LINE_COLOR == "#1A1A1A"
DEFAULT_TITLE == "Grant Funding and Deal Count Over Time"

Alphabet == <<"5", "A", "B", "nan">>
TextRank(text) == CHOOSE i \in 1..Len(Alphabet) : Alphabet[i] = text

\* sorted(cells): ascending by label
RECURSIVE SortedCells(_)
SortedCells(S) ==
    IF S = {} THEN <<>>
    ELSE LET m == CHOOSE x \in S : \A z \in S : TextRank(x.text) <= TextRank(z.text)
         IN  <<m>> \o SortedCells(S \ {m})

Reversed(seq) == [i \in 1..Len(seq) |-> seq[Len(seq) + 1 - i]]

\* dict.get(key, default)
Get(dict, key, default) == IF key \in DOMAIN dict THEN dict[key] ELSE default
\* list.sort(key=...): stable, ascending by key
RECURSIVE StableSort(_, _)
StableSort(seq, key) ==
    IF seq = <<>> THEN <<>>
    ELSE LET i == CHOOSE j \in 1..Len(seq) :
                     /\ \A k \in 1..Len(seq) : key[seq[j]] <= key[seq[k]]
                     /\ \A k \in 1..(j - 1) : key[seq[k]] # key[seq[j]]
         IN  <<seq[i]>> \o StableSort(
                 SubSeq(seq, 1, i - 1) \o SubSeq(seq, i + 1, Len(seq)), key)

\* Faulty variant of CategoryCols: category_order is not applied.
CategoryColsUnsorted(rows, column, category_order) ==
    IF column = None THEN <<>>
    ELSE IF rows = <<>> THEN <<>> ELSE SortedCells(DOMAIN rows[1].values)

\* category_cols (app.py 469-476): the value columns of final_data, sorted by
\* category_order when one is given.
CategoryCols(rows, column, category_order) ==
    IF column = None THEN <<>>
    ELSE LET cols == IF rows = <<>> THEN <<>> ELSE SortedCells(DOMAIN rows[1].values)
         IN  IF DOMAIN category_order # {}
             THEN StableSort(cols, [c \in Range(cols) |-> Get(category_order, c, 999)])
             ELSE cols

\* the colour of the category at stack index idx (1-based)
CategoryColor(cat, idx, category_colors) ==
    IF cat \in DOMAIN category_colors THEN category_colors[cat]
    ELSE CATEGORY_COLORS[((idx - 1) % Len(CATEGORY_COLORS)) + 1]

RECURSIVE SumSeq(_)
SumSeq(seq) == IF seq = <<>> THEN 0 ELSE Head(seq) + SumSeq(Tail(seq))

\* Faulty variant of BarLabel: every label is centred on its segment.
BarLabelCentred(i, idx, val, bottom, vertical_offset, color, fontsize) ==
    [x |-> i, idx |-> idx, text |-> FormatCurrency(Exact(val)),
     color |-> IF IsDarkColor(color) THEN "#FFFFFF" ELSE "#000000",
     y_pos |-> Frac(2 * bottom + val, 2),
     va |-> "center",
     fontsize |-> fontsize]

\* chart_ax1.text(x, y_pos, label_text, va=va, ...) for the segment of the
\* category at stack index idx (1-based) in bucket i, of value val > 0, drawn
\* from bottom in colour color (app.py 499-512; 521-528 is the case idx = 1
\* for the single bar).  y_pos is a fraction.
BarLabel(i, idx, val, bottom, vertical_offset, color, fontsize) ==
    [x |-> i, idx |-> idx, text |-> FormatCurrency(Exact(val)),
     color |-> IF IsDarkColor(color) THEN "#FFFFFF" ELSE "#000000",
     y_pos |-> IF idx = 1 THEN vertical_offset ELSE Frac(2 * bottom + val, 2),
     va |-> IF idx = 1 THEN "bottom" ELSE "center",
     fontsize |-> fontsize]

\* y_max is NaN for a frame without rows, and set_ylim(0, NaN) raises.
GenerateChartRaises(rows) == rows = <<>>

\* y_max (app.py 478-481)
YMax(rows, column, category_cols) ==
    LET totals == [i \in 1..Len(rows) |->
                      IF column = None THEN rows[i].values[VALUE_COLUMN]
                      ELSE SumSeq([k \in 1..Len(category_cols) |->
                                      rows[i].values[category_cols[k]]])]
    IN  CHOOSE t \in Range(totals) : \A i \in 1..Len(rows) : t >= totals[i]

\* bottom when the category at stack index idx is drawn (app.py 486, 513)
Bottom(rows, category_cols, idx) ==
    [i \in 1..Len(rows) |-> SumSeq([k \in 1..(idx - 1) |-> rows[i].values[category_cols[k]]])]

\* the texts chart_ax1.text draws on the bars (app.py 483-528)
TextLabels(rows, column, show_bars, category_colors, category_cols, vertical_offset, fontsize) ==
    IF ~show_bars THEN {}
    ELSE IF column # None
    THEN {BarLabel(q[2], q[1], rows[q[2]].values[category_cols[q[1]]],
                   Bottom(rows, category_cols, q[1])[q[2]], vertical_offset,
                   CategoryColor(category_cols[q[1]], q[1], category_colors), fontsize) :
              q \in {p \in (1..Len(category_cols)) \X (1..Len(rows)) :
                        rows[p[2]].values[category_cols[p[1]]] > 0}}
    ELSE {BarLabel(i, 1, rows[i].values[VALUE_COLUMN], 0, vertical_offset,
                   SINGLE_BAR_COLOR, fontsize) :
              i \in {j \in 1..Len(rows) : rows[j].values[VALUE_COLUMN] > 0}}

\* Neither bar call passes hatch (app.py 494-495, 516-517) and the one plot
\* call passes no linestyle (app.py 545): each container of bars is filled
\* without hatching over all buckets, and one solid line joins all points.
DEFAULT_HATCH == None
DEFAULT_LINESTYLE == "-"

\* The figure drawn for the category columns in stacking order.
Figure(rows, column, show_bars, show_line, chart_title, original_value_column, category_colors, category_cols) ==
    LET n == Len(rows)
        bar_legend_label == IF original_value_column = "received"
                            THEN "Total amount received" ELSE "Amount raised"
    IN  [title |-> chart_title,
         xticklabels |-> [i \in 1..n |-> rows[i].time_period],
         bars |-> IF ~show_bars THEN <<>>
                  ELSE IF column # None
                  THEN [idx \in 1..Len(category_cols) |->
                           [label |-> AsStr(category_cols[idx]),
                            color |-> CategoryColor(category_cols[idx], idx, category_colors),
                            hatch |-> DEFAULT_HATCH,
                            height |-> [i \in 1..n |-> rows[i].values[category_cols[idx]]],
                            bottom |-> Bottom(rows, category_cols, idx)]]
                  ELSE <<[label |-> "Total amount received",
                          color |-> SINGLE_BAR_COLOR,
                          hatch |-> DEFAULT_HATCH,
                          height |-> [i \in 1..n |-> rows[i].values[VALUE_COLUMN]],
                          bottom |-> [i \in 1..n |-> 0]]>>,
         bar_labels |-> TextLabels(rows, column, show_bars, category_colors, category_cols,
                                   Frac(YMax(rows, column, category_cols), 100), FontSize(n)),
         plots |-> IF show_line
                   THEN <<[first |-> 1, last |-> n, linestyle |-> DEFAULT_LINESTYLE,
                           label |-> "Number of deals"]>>
                   ELSE <<>>,
         line |-> IF show_line
                  THEN [i \in 1..n |->
                           [count |-> rows[i].row_count,
                            above |-> PlaceLabel([k \in 1..n |-> rows[k].row_count], i).above]]
                  ELSE <<>>,
         legend |-> (IF ~show_bars THEN <<>>
                     ELSE IF column # None
                     THEN [idx \in 1..Len(category_cols) |->
                              [label |-> AsStr(category_cols[idx]),
                               color |-> CategoryColor(category_cols[idx], idx, category_colors)]]
                     ELSE <<[label |-> bar_legend_label, color |-> SINGLE_BAR_COLOR]>>)
                    \o (IF show_line
                        THEN <<[label |-> "Number of deals", color |-> LINE_COLOR]>>
                        ELSE <<>>)]

GenerateChart(rows, column, show_bars, show_line, chart_title, original_value_column, category_colors, category_order) ==
    Figure(rows, column, show_bars, show_line, chart_title, original_value_column,
           category_colors, CategoryCols(rows, column, category_order))

\* chart_fig.savefig(buf, format=...): the bytes are a function of the figure
\* and the format; BytesIO() is the empty buffer.
EmptyBuffer == [format |-> "empty"]
SaveFig(figure, format) == [format |-> format, figure |-> figure]

(***************************************************************************)
(* The script (app.py 680-1075).  Streamlit runs it from top to bottom on  *)
(* every user action.  A widget returns the value the user has just given  *)
(* it if the action of this run is on that widget, and otherwise the       *)
(* default the script computes for it from session state (its value= or    *)
(* index= argument).                                                       *)
(***************************************************************************)
UserAction(widget, target, value) == [widget |-> widget, target |-> target, value |-> value]
NoAction == UserAction("none", NaN, 0)

Widget(act, name, default) == IF act.widget = name THEN act.value ELSE default
WidgetFor(act, name, target, default) ==
    IF act.widget = name /\ act.target = target THEN act.value ELSE default

\* app.py 680-696
InitialSession ==
    [year_range |-> <<1900, 2100>>,
     category_column |-> None,
     show_bars |-> TRUE,
     show_line |-> TRUE,
     chart_title |-> DEFAULT_TITLE,
     buf_png |-> EmptyBuffer,
     buf_svg |-> EmptyBuffer,
     filter_enabled |-> FALSE,
     filter_column |-> None,
     filter_include |-> TRUE,
     filter_values |-> {},
     original_value_column |-> "raised",
     stacked_enabled |-> FALSE,
     category_colors |-> <<>>,
     category_order |-> <<>>,
     sorted_categories |-> <<>>]

NoChart == [drawn |-> FALSE]
Chart(figure) == [drawn |-> TRUE, figure |-> figure]
NotRendered == [format |-> "none"]

\* What a run leaves behind: where it ended, session state, the locals of
\* the script, the chart on screen and the data of the download buttons.
Outcome(at, sess, frame, config, filtered, result, chart, png, svg) ==
    [pc |-> at, session |-> sess, df_base |-> frame, filter_config |-> config,
     df_filtered |-> filtered, final_data |-> result.final_data,
     process_error |-> result.process_error, shown |-> chart,
     download_png |-> png, download_svg |-> svg]

NoResult == [final_data |-> NoFrame, process_error |-> None]
NoConfig == FilterConfig(FALSE, None, TRUE, {})

\* Stacked Bars (app.py 798-881)
StackingSection(sess, df, act) ==
    LET stacked_enabled == Widget(act, "stacked_enabled", sess.stacked_enabled)
        s1 == [sess EXCEPT !.stacked_enabled = stacked_enabled]
    IN  IF ~stacked_enabled
        THEN [s1 EXCEPT !.category_column = None, !.category_colors = <<>>,
                        !.category_order = <<>>, !.sorted_categories = <<>>]
        ELSE
        LET column == Widget(act, "category_column", s1.category_column)
            s2 == [s1 EXCEPT !.category_column = column]
        IN  IF column = None THEN s2
            ELSE
            LET unique_categories ==
                    SortedCells({r.extra : r \in {q \in Range(df) : ~IsNa(q.extra)}})
                listed == IF Range(s2.sorted_categories) # Range(unique_categories)
                          THEN Reversed(unique_categories)
                          ELSE s2.sorted_categories
                IndexOf(seq, c) == CHOOSE i \in 1..Len(seq) : seq[i] = c
                Palette(i) == CATEGORY_COLORS[((i - 1) % Len(CATEGORY_COLORS)) + 1]
                colors1 == [c \in DOMAIN s2.category_colors \cup Range(listed) |->
                               IF c \in DOMAIN s2.category_colors
                               THEN s2.category_colors[c]
                               ELSE Palette(IndexOf(listed, c))]
                sorted_categories == Widget(act, "category_sorter", listed)
                num_categories == Len(sorted_categories)
                order1 == [c \in DOMAIN s2.category_order \cup Range(sorted_categories) |->
                              IF c \in Range(sorted_categories)
                              THEN num_categories - (IndexOf(sorted_categories, c) - 1)
                              ELSE s2.category_order[c]]
                Selected(c) ==
                    LET current_color == Get(colors1, c, Palette(IndexOf(sorted_categories, c)))
                    IN  WidgetFor(act, "color_select", c,
                                  IF current_color \in Range(PREDEFINED_COLORS)
                                  THEN current_color ELSE PREDEFINED_COLORS[1])
                colors2 == [c \in DOMAIN colors1 |->
                               IF c \in Range(sorted_categories) THEN Selected(c)
                               ELSE colors1[c]]
            IN  [s2 EXCEPT !.sorted_categories = sorted_categories,
                           !.category_order = order1,
                           !.category_colors = colors2]

\* df_base[c].dtype in ['object', 'category']: a column holding a string
IsObjectColumn(df) == \E r \in Range(df) : r.extra.kind = "str"
FilterColumns(df) == {None} \cup (IF IsObjectColumn(df) THEN {ExtraColumn} ELSE {})

\* Data Filter (app.py 883-927)
FilterSection(sess, df, act) ==
    LET filter_enabled == Widget(act, "filter_enabled", sess.filter_enabled)
        s1 == [sess EXCEPT !.filter_enabled = filter_enabled]
    IN  IF ~filter_enabled THEN s1
        ELSE
        LET filter_column ==
                Widget(act, "filter_column",
                       IF s1.filter_column \in FilterColumns(df)
                       THEN s1.filter_column ELSE None)
            s2 == [s1 EXCEPT !.filter_column = filter_column]
        IN  IF filter_column = None THEN [s2 EXCEPT !.filter_values = {}]
            ELSE
            LET unique_values == {AsStr(r.extra) : r \in Range(df)}
                include == Widget(act, "filter_mode", s2.filter_include)
                default_selection == IF s2.filter_values # {} THEN s2.filter_values
                                     ELSE unique_values
                selected_values ==
                    Widget(act, "filter_values", default_selection \cap unique_values)
            IN  [s2 EXCEPT !.filter_include = include,
                           !.filter_values = selected_values]

\* Faulty variant of MainArea: fresh buffers are stored before the checks.
MainAreaStoresFirst(sess, df, png, svg) ==
    LET config == FilterConfig(sess.filter_enabled, sess.filter_column,
                               sess.filter_include, sess.filter_values)
        filtered == ApplyFilter(df, config)
        result == ProcessData(filtered, sess.year_range, sess.category_column)
        chart_fig == GenerateChart(result.final_data.rows, sess.category_column,
                                   sess.show_bars, sess.show_line, sess.chart_title,
                                   sess.original_value_column, sess.category_colors,
                                   sess.category_order)
        fresh == [sess EXCEPT !.buf_png = EmptyBuffer, !.buf_svg = EmptyBuffer]
    IN  IF filtered = <<>>
        THEN Outcome("filter_empty", fresh, df, config, filtered, NoResult, NoChart, png, svg)
        ELSE IF result.final_data.none
        THEN Outcome("range_empty", fresh, df, config, filtered, result, NoChart, png, svg)
        ELSE IF GenerateChartRaises(result.final_data.rows)
        THEN Outcome("chart_exception", fresh, df, config, filtered, result, NoChart, png, svg)
        ELSE Outcome("rendered",
                     [sess EXCEPT !.buf_png = SaveFig(chart_fig, "png"),
                                  !.buf_svg = SaveFig(chart_fig, "svg")],
                     df, config, filtered, result, Chart(chart_fig), png, svg)

\* Main area (app.py 953-994), entered with the session state the sidebar
\* has left and the data the download buttons were given.
MainArea(sess, df, png, svg) ==
    LET config == FilterConfig(sess.filter_enabled, sess.filter_column,
                               sess.filter_include, sess.filter_values)
        filtered == ApplyFilter(df, config)
        result == ProcessData(filtered, sess.year_range, sess.category_column)
        chart_fig == GenerateChart(result.final_data.rows, sess.category_column,
                                   sess.show_bars, sess.show_line, sess.chart_title,
                                   sess.original_value_column, sess.category_colors,
                                   sess.category_order)
    IN  IF filtered = <<>>
        THEN Outcome("filter_empty", sess, df, config, filtered, NoResult, NoChart, png, svg)
        ELSE IF result.final_data.none
        THEN Outcome("range_empty", sess, df, config, filtered, result, NoChart, png, svg)
        ELSE IF GenerateChartRaises(result.final_data.rows)
        THEN Outcome("chart_exception", sess, df, config, filtered, result, NoChart, png, svg)
        ELSE Outcome("rendered",
                     [sess EXCEPT !.buf_png = SaveFig(chart_fig, "png"),
                                  !.buf_svg = SaveFig(chart_fig, "svg")],
                     df, config, filtered, result, Chart(chart_fig), png, svg)

\* Faulty variant of StartAfterEnd: the range is never refused.
StartAfterEndIgnored(start_year, end_year) == FALSE

\* start_year > end_year (app.py 765)
StartAfterEnd(start_year, end_year) == start_year > end_year

\* One run of the script with the file the uploader holds.
RunScript(sess, file, act) ==
    IF file = NoFile
    THEN Outcome("no_file", sess, <<>>, NoConfig, <<>>, NoResult, NoChart,
                 NotRendered, NotRendered)
    ELSE
    LET loaded == LoadData(file) IN
    IF loaded.data.none
    THEN Outcome("load_error", sess, <<>>, NoConfig, <<>>, NoResult, NoChart,
                 NotRendered, NotRendered)
    ELSE
    LET df == loaded.data.rows
        custom_title == Widget(act, "chart_title", sess.chart_title)
        s1 == [sess EXCEPT !.original_value_column = loaded.original_value_column,
                           !.chart_title = custom_title]
    IN
    \* int(df_base[DATE_COLUMN].dt.year.min()) raises on a frame without rows
    IF df = <<>>
    THEN Outcome("year_exception", s1, df, NoConfig, <<>>, NoResult, NoChart,
                 NotRendered, NotRendered)
    ELSE
    LET years == {YearOf(r.date) : r \in Range(df)}
        min_year == CHOOSE y \in years : \A z \in years : y <= z
        max_year == CHOOSE y \in years : \A z \in years : y >= z
        all_years == min_year..max_year
        current_start == s1.year_range[1]
        current_end == s1.year_range[2]
        start_year == Widget(act, "start_year",
                             IF current_start \in all_years THEN current_start ELSE min_year)
        end_year == Widget(act, "end_year",
                           IF current_end \in all_years THEN current_end ELSE max_year)
        show_bars == Widget(act, "show_bars", s1.show_bars)
        show_line == Widget(act, "show_line", s1.show_line)
        s2 == [s1 EXCEPT !.year_range = <<start_year, end_year>>,
                         !.show_bars = show_bars, !.show_line = show_line]
        s3 == FilterSection(StackingSection(s2, df, act), df, act)
    IN
    IF StartAfterEnd(start_year, end_year)
    THEN Outcome("range_stop", s1, df, NoConfig, <<>>, NoResult, NoChart,
                 NotRendered, NotRendered)
    ELSE IF ~show_bars /\ ~show_line
    THEN Outcome("elements_stop", s1, df, NoConfig, <<>>, NoResult, NoChart,
                 NotRendered, NotRendered)
    ELSE MainArea(s3, df, s3.buf_png, s3.buf_svg)

(***************************************************************************)
(* Specification SpecLine: generate_chart's label loop run on every count  *)
(* sequence within the bounds, one iteration per step.  Row counts come    *)
(* from groupby(...).size(), so every count is at least 1.                 *)
(***************************************************************************)
CountSeqs == SeqsUpTo(1..MaxCount, MaxPoints)

\* The variables of the parts of the program a specification does not run.
LineIdle == line_data = <<>> /\ labels = <<>>
DataIdle ==
    /\ df_base = <<>>
    /\ filter_config = FilterConfig(FALSE, None, TRUE, {})
    /\ df_filtered = <<>>
    /\ year_range = <<1900, 2100>>
    /\ category_column = None
    /\ final_data = NoFrame
    /\ process_error = None

NoText == [sign |-> "", symbol |-> <<>>, whole |-> 0, decimals |-> <<>>,
           exponent |-> 0, unit |-> ""]
TextIdle ==
    /\ fc_value = Exact(0)
    /\ label_text = NoText
    /\ num_bars = 0
    /\ font_size = 0

AppIdle ==
    /\ uploaded_file = NoFile
    /\ session = InitialSession
    /\ shown = NoChart
    /\ download_png = NotRendered
    /\ download_svg = NotRendered
    /\ reruns = 0

InitLine ==
    /\ line_data \in CountSeqs
    /\ labels = <<>>
    /\ pc = "line"
    /\ DataIdle
    /\ AppIdle
    /\ TextIdle

LabelPoint ==
    /\ Len(labels) < Len(line_data)
    /\ labels' = Append(labels, PlaceLabel(line_data, Len(labels) + 1))
    /\ UNCHANGED <<line_data, pc, dataVars, appVars, textVars>>

NextLine == LabelPoint

SpecLine == InitLine /\ [][NextLine]_vars

(***************************************************************************)
(* Specification SpecFilter: apply_filter called on every frame within the *)
(* bounds with every filter configuration the sidebar can store.  The      *)
(* values are a subset of the multiselect's options (app.py 905), the      *)
(* distinct values of the column rendered as strings.                      *)
(***************************************************************************)
UniqueValues(df) == {AsStr(r.extra) : r \in Range(df)}

InitFilter ==
    /\ LineIdle
    /\ pc = "loaded"
    /\ df_base \in Frames
    /\ filter_config = FilterConfig(FALSE, None, TRUE, {})
    /\ df_filtered = <<>>
    /\ year_range = <<1900, 2100>>
    /\ category_column = None
    /\ final_data = NoFrame
    /\ process_error = None
    /\ AppIdle
    /\ TextIdle

ApplyFilterCall ==
    /\ pc = "loaded"
    /\ \E enabled \in BOOLEAN, column \in {None, ExtraColumn}, include \in BOOLEAN,
          values \in SUBSET UniqueValues(df_base) :
           /\ filter_config' = FilterConfig(enabled, column, include, values)
           /\ df_filtered' = ApplyFilter(df_base, filter_config')
    /\ pc' = "filtered"
    /\ UNCHANGED <<lineVars, df_base, year_range, category_column, final_data,
                   process_error, appVars, textVars>>

NextFilter == ApplyFilterCall

SpecFilter == InitFilter /\ [][NextFilter]_vars

(***************************************************************************)
(* Specification SpecAgg: process_data called on every frame within the    *)
(* bounds, with every year range over the years of the data and with and   *)
(* without the category column.                                            *)
(***************************************************************************)
InitAgg ==
    /\ LineIdle
    /\ pc = "filtered"
    /\ df_base = <<>>
    /\ filter_config = FilterConfig(FALSE, None, TRUE, {})
    /\ df_filtered \in Frames
    /\ year_range = <<1900, 2100>>
    /\ category_column = None
    /\ final_data = NoFrame
    /\ process_error = None
    /\ AppIdle
    /\ TextIdle

ProcessDataCall ==
    /\ pc = "filtered"
    /\ \E start_year \in Years, end_year \in Years, column \in {None, ExtraColumn} :
           LET result == ProcessData(df_filtered, <<start_year, end_year>>, column)
           IN  /\ year_range' = <<start_year, end_year>>
               /\ category_column' = column
               /\ final_data' = result.final_data
               /\ process_error' = result.process_error
    /\ pc' = "processed"
    /\ UNCHANGED <<lineVars, df_base, filter_config, df_filtered, appVars, textVars>>

NextAgg == ProcessDataCall

SpecAgg == InitAgg /\ [][NextAgg]_vars

(***************************************************************************)
(* Specification SpecCurrency: format_currency called on amounts of every  *)
(* magnitude class, of either sign, with and without hundredths, among     *)
(* them the limits of the classes and decimal ties of the rounding.        *)
(***************************************************************************)
WholeParts ==
    {0, 1, 12, 100, 101, 999, 1000, 1005, 1125, 1234, 5000, 99950, 999499, 999500,
     1000000, 2000000, 12345678, 999999999, 1000000000, 1500000000, 2147483647}
CentParts == {0, 1, 25, 34, 50, 99}

InitCurrency ==
    /\ LineIdle
    /\ pc = "value"
    /\ DataIdle
    /\ AppIdle
    /\ fc_value \in {Float(neg, int, cents, side) :
                     neg \in BOOLEAN, int \in WholeParts, cents \in CentParts,
                     side \in {-1, 0, 1}}
    /\ label_text = NoText
    /\ num_bars = 0
    /\ font_size = 0

FormatCurrencyCall ==
    /\ pc = "value"
    /\ label_text' = FormatCurrency(fc_value)
    /\ pc' = "formatted"
    /\ UNCHANGED <<lineVars, dataVars, appVars, fc_value, num_bars, font_size>>

NextCurrency == FormatCurrencyCall

SpecCurrency == InitCurrency /\ [][NextCurrency]_vars

(***************************************************************************)
(* Specification SpecFont: the label font size of generate_chart for every *)
(* number of buckets up to MaxBars.                                        *)
(***************************************************************************)
InitFont ==
    /\ LineIdle
    /\ pc = "buckets"
    /\ DataIdle
    /\ AppIdle
    /\ fc_value = Exact(0)
    /\ label_text = NoText
    /\ num_bars \in 0..MaxBars
    /\ font_size = 0

FontSizeCall ==
    /\ pc = "buckets"
    /\ font_size' = FontSize(num_bars)
    /\ pc' = "sized"
    /\ UNCHANGED <<lineVars, dataVars, appVars, fc_value, label_text, num_bars>>

NextFont == FontSizeCall

SpecFont == InitFont /\ [][NextFont]_vars

(***************************************************************************)
(* Specification SpecChart: generate_chart called on every aggregated      *)
(* frame within the bounds, without a category column (one value column)   *)
(* and with one (the columns A and B, in the order pivot gives them), the  *)
(* sums being negative, zero or positive, with bars and line switched as   *)
(* the page allows and with category colours and orders as the session may *)
(* hold them.  The arguments of the call are recorded in session.          *)
(***************************************************************************)
SegmentValues == {-1, 0, 2}
ChartColumns(column) ==
    IF column = None THEN {VALUE_COLUMN} ELSE {StrCell("A"), StrCell("B")}
ChartFrames(column) ==
    UNION {[1..n -> [time_period : {2010}, values : [ChartColumns(column) -> SegmentValues],
                     row_count : {1}]] : n \in 1..MaxBuckets}
\* the buckets of a frame are consecutive years
Dated(rows) == [i \in 1..Len(rows) |-> [rows[i] EXCEPT !.time_period = 2009 + i]]

ChartOrders ==
    {<<>>,
     [c \in {StrCell("A"), StrCell("B")} |-> IF c = StrCell("A") THEN 1 ELSE 2],
     [c \in {StrCell("A"), StrCell("B")} |-> IF c = StrCell("A") THEN 2 ELSE 1],
     [c \in {StrCell("B")} |-> 1]}
ChartColorings ==
    {<<>>,
     [c \in {StrCell("A"), StrCell("B")} |-> IF c = StrCell("A") THEN "#000000" ELSE "#FFFFFF"],
     [c \in {StrCell("A")} |-> "#C8C3E0"]}

InitChart ==
    /\ LineIdle
    /\ pc = "processed"
    /\ df_base = <<>>
    /\ filter_config = FilterConfig(FALSE, None, TRUE, {})
    /\ df_filtered = <<>>
    /\ year_range = <<1900, 2100>>
    /\ category_column \in {None, ExtraColumn}
    /\ final_data \in {Frame(Dated(rows)) : rows \in ChartFrames(category_column)}
    /\ process_error = None
    /\ AppIdle
    /\ TextIdle

GenerateChartCall ==
    /\ pc = "processed"
    /\ \E show_bars \in BOOLEAN, show_line \in BOOLEAN,
          category_colors \in ChartColorings, category_order \in ChartOrders :
           /\ show_bars \/ show_line
           /\ session' = [session EXCEPT !.category_column = category_column,
                                         !.show_bars = show_bars,
                                         !.show_line = show_line,
                                         !.category_colors = category_colors,
                                         !.category_order = category_order]
           /\ shown' = Chart(GenerateChart(final_data.rows, category_column, show_bars,
                                           show_line, session.chart_title,
                                           session.original_value_column,
                                           category_colors, category_order))
    /\ pc' = "drawn"
    /\ UNCHANGED <<lineVars, dataVars, uploaded_file, download_png, download_svg,
                   reruns, textVars>>

NextChart == GenerateChartCall

SpecChart == InitChart /\ [][NextChart]_vars

(***************************************************************************)
(* Specification SpecApp: the page.  It starts with the first run of the   *)
(* script, no file uploaded; every step is one user action on a widget     *)
(* that the last run put on the page, followed by the rerun it triggers.   *)
(***************************************************************************)
Row(date, value, extra) == [date |-> date, value |-> value, extra |-> extra]

FilePrimary ==
    File(Header(DATE_COLUMN, TRUE), Header(VALUE_COLUMN, FALSE),
         <<Row(Date(2010, 6), 1, StrCell("A")), Row(Date(2020, 6), 2, StrCell("B"))>>)
FileAlias ==
    File(Header(ALT_DATE_COLUMN, FALSE), Header(ALT_VALUE_COLUMN, TRUE),
         <<Row(Date(2010, 6), 1, NaN), Row(Date(2015, 12), 2, StrCell("A")),
           Row(Date(2015, 13), 1, StrCell("B"))>>)
FileNoDateColumn ==
    File(Header("Date", FALSE), Header(VALUE_COLUMN, FALSE),
         <<Row(Date(2010, 6), 1, StrCell("A"))>>)
FileNoValueColumn ==
    File(Header(DATE_COLUMN, FALSE), Header("Amount", FALSE),
         <<Row(Date(2010, 6), 1, StrCell("A"))>>)
FileBadDates ==
    File(Header(DATE_COLUMN, FALSE), Header(VALUE_COLUMN, FALSE),
         <<Row(Date(2015, 13), 1, StrCell("A"))>>)

AppFiles == {FilePrimary, FileAlias, FileNoDateColumn, FileNoValueColumn, FileBadDates}
Titles == {DEFAULT_TITLE, "Deals"}

Orderings(seq) ==
    {p \in [1..Len(seq) -> Range(seq)] : \A i, j \in 1..Len(seq) : p[i] = p[j] => i = j}

\* The widgets of the page, by how far the last run got.
ConfigShown == pc \in {"filter_empty", "range_empty", "chart_exception", "rendered"}
ElementsShown == ConfigShown \/ pc = "elements_stop"
RangeShown == ElementsShown \/ pc = "range_stop"
YearOptions == {y \in Years : \E a, b \in Range(df_base) : YearOf(a.date) <= y /\ y <= YearOf(b.date)}

Rerun(file, act) ==
    \E run \in {RunScript(session, file, act)} :
        /\ reruns < MaxReruns
        /\ reruns' = reruns + 1
        /\ uploaded_file' = file
        /\ pc' = run.pc
        /\ session' = run.session
        /\ df_base' = run.df_base
        /\ filter_config' = run.filter_config
        /\ df_filtered' = run.df_filtered
        /\ year_range' = run.session.year_range
        /\ category_column' = run.session.category_column
        /\ final_data' = run.final_data
        /\ process_error' = run.process_error
        /\ shown' = run.shown
        /\ download_png' = run.download_png
        /\ download_svg' = run.download_svg
        /\ UNCHANGED <<lineVars, textVars>>

InitApp ==
    /\ LineIdle
    /\ uploaded_file = NoFile
    /\ pc = "no_file"
    /\ session = InitialSession
    /\ DataIdle
    /\ shown = NoChart
    /\ download_png = NotRendered
    /\ download_svg = NotRendered
    /\ reruns = 0
    /\ TextIdle

UploadFile ==
    \E file \in AppFiles : file # uploaded_file /\ Rerun(file, NoAction)

RemoveFile ==
    uploaded_file # NoFile /\ Rerun(NoFile, NoAction)

EditTitle ==
    /\ RangeShown
    /\ \E title \in Titles :
           /\ title # session.chart_title
           /\ Rerun(uploaded_file, UserAction("chart_title", NaN, title))

SelectStartYear ==
    /\ RangeShown
    /\ \E y \in YearOptions : Rerun(uploaded_file, UserAction("start_year", NaN, y))

SelectEndYear ==
    /\ RangeShown
    /\ \E y \in YearOptions : Rerun(uploaded_file, UserAction("end_year", NaN, y))

ToggleBars ==
    /\ ElementsShown
    /\ Rerun(uploaded_file, UserAction("show_bars", NaN, ~session.show_bars))

ToggleLine ==
    /\ ElementsShown
    /\ Rerun(uploaded_file, UserAction("show_line", NaN, ~session.show_line))

ToggleStacking ==
    /\ ConfigShown
    /\ Rerun(uploaded_file, UserAction("stacked_enabled", NaN, ~session.stacked_enabled))

SelectCategoryColumn ==
    /\ ConfigShown
    /\ session.stacked_enabled
    /\ \E column \in {None, ExtraColumn} :
           /\ column # session.category_column
           /\ Rerun(uploaded_file, UserAction("category_column", NaN, column))

ReorderCategories ==
    /\ ConfigShown
    /\ session.stacked_enabled
    /\ session.category_column # None
    /\ \E order \in Orderings(session.sorted_categories) :
           /\ order # session.sorted_categories
           /\ Rerun(uploaded_file, UserAction("category_sorter", NaN, order))

PickColor ==
    /\ ConfigShown
    /\ session.stacked_enabled
    /\ session.category_column # None
    /\ \E category \in Range(session.sorted_categories) :
       \E hex \in Range(PREDEFINED_COLORS) :
           /\ hex # session.category_colors[category]
           /\ Rerun(uploaded_file, UserAction("color_select", category, hex))

ToggleFiltering ==
    /\ ConfigShown
    /\ Rerun(uploaded_file, UserAction("filter_enabled", NaN, ~session.filter_enabled))

SelectFilterColumn ==
    /\ ConfigShown
    /\ session.filter_enabled
    /\ \E column \in FilterColumns(df_base) :
           /\ column # session.filter_column
           /\ Rerun(uploaded_file, UserAction("filter_column", NaN, column))

SelectFilterMode ==
    /\ ConfigShown
    /\ session.filter_enabled
    /\ session.filter_column # None
    /\ Rerun(uploaded_file, UserAction("filter_mode", NaN, ~session.filter_include))

SelectFilterValues ==
    /\ ConfigShown
    /\ session.filter_enabled
    /\ session.filter_column # None
    /\ \E values \in SUBSET UniqueValues(df_base) :
           /\ values # session.filter_values
           /\ Rerun(uploaded_file, UserAction("filter_values", NaN, values))

\* A click on a download button delivers the data bound to it and reruns
\* the script.
ClickDownload ==
    /\ ConfigShown
    /\ Rerun(uploaded_file, NoAction)

NextApp ==
    \/ UploadFile
    \/ RemoveFile
    \/ EditTitle
    \/ SelectStartYear
    \/ SelectEndYear
    \/ ToggleBars
    \/ ToggleLine
    \/ ToggleStacking
    \/ SelectCategoryColumn
    \/ ReorderCategories
    \/ PickColor
    \/ ToggleFiltering
    \/ SelectFilterColumn
    \/ SelectFilterMode
    \/ SelectFilterValues
    \/ ClickDownload

SpecApp == InitApp /\ [][NextApp]_vars

(***************************************************************************)
(* Claims about the line-label loop (checked under SpecLine).              *)
(***************************************************************************)
Drawn == 1..Len(labels)
InteriorDrawn == {i \in Drawn : 1 < i /\ i < Len(line_data)}
StrictlyIncreasing(data) == \A i \in 1..(Len(data) - 1) : data[i] < data[i + 1]
StrictlyDecreasing(data) == \A i \in 1..(Len(data) - 1) : data[i] > data[i + 1]

\* C1: every interior label is above for a local peak, strictly rising,
\* flat-then-rising, rising-then-flat and fully flat, below for a local valley,
\* strictly falling, flat-then-falling and falling-then-flat; the default
\* branch is taken only when prev = y[i] = next.
C1_InteriorPlacement ==
    \A i \in InteriorDrawn :
        LET prev == line_data[i - 1]
            y == line_data[i]
            next == line_data[i + 1]
            up == \/ (y > prev /\ y > next)
                  \/ (y > prev /\ y < next)
                  \/ (prev = y /\ next > y)
                  \/ (prev < y /\ next = y)
                  \/ (prev = y /\ y = next)
            down == \/ (y < prev /\ y < next)
                    \/ (y < prev /\ y > next)
                    \/ (prev = y /\ next < y)
                    \/ (prev > y /\ next = y)
        IN  /\ up => labels[i].above
            /\ down => ~labels[i].above
            /\ up \/ down
            /\ labels[i].branch = "default" => (prev = y /\ y = next)

\* C1 witness: a finished loop with a fully flat interior point labelled above
\* by the default branch and a flat-then-falling interior point labelled below.
C1_Witness ==
    /\ Len(labels) = Len(line_data)
    /\ \E i \in InteriorDrawn :
           /\ line_data[i - 1] = line_data[i] /\ line_data[i] = line_data[i + 1]
           /\ labels[i].branch = "default" /\ labels[i].above
    /\ \E j \in InteriorDrawn :
           /\ line_data[j - 1] = line_data[j] /\ line_data[j + 1] < line_data[j]
           /\ ~labels[j].above

\* C2: the first label is above iff y[1] >= y[0], the last label is above iff
\* y[n-2] <= y[n-1], and the only label of a one-point line is above.
C2_EndpointPlacement ==
    LET n == Len(line_data)
    IN  /\ (n = 1 /\ Len(labels) = 1) => labels[1].above
        /\ (n >= 2 /\ Len(labels) >= 1) =>
               (labels[1].above <=> line_data[2] >= line_data[1])
        /\ (n >= 2 /\ Len(labels) = n) =>
               (labels[n].above <=> line_data[n - 1] <= line_data[n])

\* C2 witness: a finished loop over at least three points whose first point
\* falls (label below) and whose last point is reached by a rise (label above).
C2_Witness ==
    LET n == Len(line_data)
    IN  /\ n >= 3 /\ Len(labels) = n
        /\ line_data[2] < line_data[1] /\ ~labels[1].above
        /\ line_data[n - 1] < line_data[n] /\ labels[n].above

\* C3: every label of a strictly increasing count sequence of length >= 2 is
\* above, and every label of a strictly decreasing one is below.
C3_MonotonePlacement ==
    Len(line_data) >= 2 =>
        /\ StrictlyIncreasing(line_data) => \A i \in Drawn : labels[i].above
        /\ StrictlyDecreasing(line_data) => \A i \in Drawn : ~labels[i].above

\* C3 witness: a finished loop over a strictly decreasing sequence with a first,
\* an interior and a last point, all labelled below.
C3_Witness ==
    /\ Len(line_data) >= 3 /\ Len(labels) = Len(line_data)
    /\ StrictlyDecreasing(line_data)
    /\ \A i \in Drawn : ~labels[i].above

(***************************************************************************)
(* Claims about process_data (checked under SpecAgg).                      *)
(***************************************************************************)
Processed == pc = "processed" /\ ~final_data.none
Buckets == Range(final_data.rows)
InRangeRows ==
    {i \in 1..Len(df_filtered) :
        /\ year_range[1] <= df_filtered[i].date.year
        /\ df_filtered[i].date.year <= year_range[2]}
RowsOfYear(y) == {i \in 1..Len(df_filtered) : df_filtered[i].date.year = y}

RECURSIVE SumOver(_, _)
SumOver(f, S) ==
    IF S = {} THEN 0
    ELSE LET x == CHOOSE z \in S : TRUE IN f[x] + SumOver(f, S \ {x})

RawValue == [i \in 1..Len(df_filtered) |-> df_filtered[i].value]

\* C4: in every bucket process_data outputs, the per-category values sum to
\* the sum of the value column over all input rows of the bucket's year,
\* with or without a category column and also for rows without a category.
C4_SumInvariant ==
    Processed =>
        \A b \in Buckets :
            SumOver(b.values, DOMAIN b.values)
                = SumOver(RawValue, RowsOfYear(b.time_period))

\* C5: in every bucket process_data outputs, row_count is the number of input
\* rows of the bucket's year, and the bucket of the same year has the same
\* row_count whichever category column (or none) is used.
C5_RowCountInvariant ==
    Processed =>
        \A b \in Buckets :
            /\ b.row_count = Cardinality(RowsOfYear(b.time_period))
            /\ \A column \in {None, ExtraColumn} :
                   \A o \in Range(ProcessData(df_filtered, year_range, column).final_data.rows) :
                       o.time_period = b.time_period => o.row_count = b.row_count

\* C5 witness: with a category column, a bucket of two rows of which one has
\* no category, so that it has one category value and row_count 2.
C5_Witness ==
    /\ Processed
    /\ category_column # None
    /\ \E b \in Buckets :
           /\ b.row_count = 2
           /\ Cardinality(DOMAIN b.values) = 1
           /\ \E i \in RowsOfYear(b.time_period) : IsNa(df_filtered[i].extra)

\* C6: process_data outputs exactly one row per distinct year with an input
\* row in the requested range, in strictly ascending year order, also with a
\* category column and rows that have no category value.
C6_OneBucketPerYear ==
    Processed =>
        LET periods == [i \in 1..Len(final_data.rows) |-> final_data.rows[i].time_period]
        IN  /\ \A i \in 1..(Len(periods) - 1) : periods[i] < periods[i + 1]
            /\ Range(periods) = {df_filtered[i].date.year : i \in InRangeRows}

\* C7: a row is kept iff startYear <= year(date) <= endYear, both ends
\* inclusive, and process_data returns the 'no data in range' error and no
\* aggregated data iff no row satisfies this.
C7_RangeFilter ==
    pc = "processed" =>
        /\ (process_error = NO_DATA_MSG) <=> (InRangeRows = {})
        /\ final_data.none <=> (InRangeRows = {})
        /\ ~final_data.none => process_error = None
        /\ \A b \in Buckets :
               /\ year_range[1] <= b.time_period /\ b.time_period <= year_range[2]
               /\ b.row_count = Cardinality(RowsOfYear(b.time_period))
        /\ (~final_data.none /\ category_column = None) =>
               {b.time_period : b \in Buckets}
                   = {df_filtered[i].date.year : i \in InRangeRows}

\* C7 witness: all dates in 2010, requested range [2015, 2020], and the call
\* has returned the error.
C7_Witness ==
    /\ pc = "processed"
    /\ year_range = <<2015, 2020>>
    /\ \A i \in 1..Len(df_filtered) : df_filtered[i].date.year = 2010
    /\ process_error = NO_DATA_MSG
    /\ final_data.none

\* C8: with a category column, every output row has a number for every
\* category occurring in an in-range row, and 0 for a (period, category)
\* pair without records.
C8_CategoriesFilled ==
    (Processed /\ category_column # None) =>
        LET categories == {df_filtered[i].extra : i \in {j \in InRangeRows : ~IsNa(df_filtered[j].extra)}}
        IN  \A b \in Buckets : \A c \in categories :
                /\ c \in DOMAIN b.values
                /\ b.values[c] \in Int
                /\ (\A i \in RowsOfYear(b.time_period) : df_filtered[i].extra # c)
                       => b.values[c] = 0

\* C8 witness: an output row with value 0 for a category that occurs only in
\* another period.
C8_Witness ==
    /\ Processed
    /\ category_column # None
    /\ \E b \in Buckets : \E c \in DOMAIN b.values :
           /\ b.values[c] = 0
           /\ \A i \in RowsOfYear(b.time_period) : df_filtered[i].extra # c
           /\ \E i \in InRangeRows : df_filtered[i].extra = c

(***************************************************************************)
(* Claims about apply_filter (checked under SpecFilter).                   *)
(***************************************************************************)
\* C10: with a filter column and a non-empty value set, Include keeps exactly
\* the rows whose value rendered as a string is in the set, Exclude exactly
\* the rows whose value rendered as a string is not, for every value of the
\* UI's value list; Include and Exclude partition the rows.
C10_FilterByString ==
    (/\ pc = "filtered"
     /\ filter_config.enabled
     /\ filter_config.column # None
     /\ filter_config.values # {}) =>
        LET inSet(r) == AsStr(r.extra) \in filter_config.values
            notInSet(r) == AsStr(r.extra) \notin filter_config.values
            other == ApplyFilter(df_base, [filter_config EXCEPT !.include = ~@])
        IN  /\ filter_config.include => df_filtered = SelectSeq(df_base, inSet)
            /\ ~filter_config.include => df_filtered = SelectSeq(df_base, notInSet)
            /\ Len(df_filtered) + Len(other) = Len(df_base)

\* C11: apply_filter returns its input, the same rows in the same order,
\* whenever the filter is disabled, the filter column is 'None' or the value
\* set is empty, in Include and in Exclude mode.
C11_FilterIdentity ==
    (/\ pc = "filtered"
     /\ \/ ~filter_config.enabled
        \/ filter_config.column = None
        \/ filter_config.values = {}) =>
        df_filtered = df_base

\* C11 witness: an enabled Include filter on a column with an empty value set,
\* called on a frame of two different rows, has returned both in order.
C11_Witness ==
    /\ pc = "filtered"
    /\ filter_config.enabled
    /\ filter_config.column # None
    /\ filter_config.include
    /\ filter_config.values = {}
    /\ Len(df_base) = 2 /\ df_base[1] # df_base[2]
    /\ df_filtered = df_base

(***************************************************************************)
(* Claims about format_currency (checked under SpecCurrency).              *)
(***************************************************************************)
Formatted == pc = "formatted"
IsZero(x) == x.int = 0 /\ x.cents = 0
\* the text "<sign><symbol><whole>[.<decimals>]<unit>" in fixed notation
FixedText(sign, symbol, whole, decimals, unit) ==
    [sign |-> sign, symbol |-> symbol, whole |-> whole, decimals |-> decimals,
     exponent |-> 0, unit |-> unit]

\* C12: for 0 < |value| < 1000 the text is the currency symbol, the magnitude
\* with exactly 2 decimal places and no unit suffix, so 999 gives "£999.00".
C12_SmallAmounts ==
    (Formatted /\ ~IsZero(fc_value) /\ fc_value.int < 1000) =>
        label_text = FixedText(IF fc_value.neg THEN "-" ELSE "", <<163>>, fc_value.int,
                               <<fc_value.cents \div 10, fc_value.cents % 10>>, "")

\* The text of an amount of at least 1000 with the given currency symbol:
\* sign, symbol, unit of the class, and a number in fixed notation that is
\* value/divisor to 3 significant figures, without a point when it is whole
\* and without trailing zeros otherwise.  In thousandths, the number is a
\* multiple of the unit u of its third significant figure and lies within
\* u/2 of value/divisor.
LargeAmountText(symbol) ==
    LET x == fc_value
        t == label_text
        shift == IF x.int >= 1000000000 THEN 9 ELSE IF x.int >= 1000000 THEN 6 ELSE 3
        unit == IF shift = 9 THEN "b" ELSE IF shift = 6 THEN "m" ELSE "k"
        scaled == x.int \div Pow10(shift)
        u == IF scaled < 10 THEN 10 ELSE IF scaled < 100 THEN 100 ELSE 1000
        per_milli == Pow10(shift - 3)
        q == x.int \div per_milli
        exact == x.int % per_milli = 0 /\ x.cents = 0
        milli == t.whole * 1000 + DigitsValue(SubSeq(t.decimals \o <<0, 0, 0>>, 1, 3))
    IN  /\ t.sign = (IF x.neg THEN "-" ELSE "")
        /\ t.symbol = symbol
        /\ t.unit = unit
        /\ t.exponent = 0
        /\ Len(t.decimals) <= 2
        /\ t.decimals # <<>> => t.decimals[Len(t.decimals)] # 0
        /\ milli % u = 0
        /\ q >= milli - u \div 2
        /\ q < milli + u \div 2 \/ (q = milli + u \div 2 /\ exact)

\* C13: for |value| >= 1000 the text is an optional '-', then '£', then
\* value/divisor of its class (1e3 k, 1e6 m, 1e9 b) to 3 significant figures,
\* without a decimal point when that is a whole number, then the unit; 0 gives
\* "£0"; 1000, 2000000, 1500000000 and -5000 give "£1k", "£2m", "£1.5b", "-£5k".
C13_LargeAmounts ==
    Formatted =>
        /\ IsZero(fc_value) => label_text = FixedText("", <<163>>, 0, <<>>, "")
        /\ fc_value.int >= 1000 => LargeAmountText(<<163>>)
        /\ (fc_value.cents = 0 /\ ~fc_value.neg) =>
               /\ fc_value.int = 1000 => label_text = FixedText("", <<163>>, 1, <<>>, "k")
               /\ fc_value.int = 2000000 => label_text = FixedText("", <<163>>, 2, <<>>, "m")
               /\ fc_value.int = 1500000000 =>
                      label_text = FixedText("", <<163>>, 1, <<5>>, "b")
        /\ (fc_value.cents = 0 /\ fc_value.neg /\ fc_value.int = 5000) =>
               label_text = FixedText("-", <<163>>, 5, <<>>, "k")

(***************************************************************************)
(* Claims about the label font size (checked under SpecFont).              *)
(***************************************************************************)
\* C16: for every number of buckets n >= 1 the font size is the integer
\* clamp(150 / n, 8, 22): it lies in 8..22, is 22 for n <= 6 and 8 for
\* n >= 19, and never increases as n increases.
C16_FontSizeClamp ==
    (pc = "sized" /\ num_bars >= 1) =>
        /\ font_size \in 8..22
        /\ 150 >= 22 * num_bars => font_size = 22
        /\ 150 <= 8 * num_bars => font_size = 8
        /\ (8 * num_bars < 150 /\ 150 < 22 * num_bars) =>
               (font_size * num_bars <= 150 /\ 150 < (font_size + 1) * num_bars)
        /\ num_bars <= 6 => font_size = 22
        /\ num_bars >= 19 => font_size = 8
        /\ \A fewer \in 1..num_bars : FontSize(fewer) >= font_size

\* C16 witness: a chart of at least 19 buckets has been given font size 8,
\* where 150 / n itself is below 8.
C16_Witness ==
    /\ pc = "sized"
    /\ num_bars >= 19
    /\ 150 < 8 * num_bars
    /\ font_size = 8

(***************************************************************************)
(* Claims about the bar labels of generate_chart (checked under SpecChart).*)
(***************************************************************************)
ChartDrawn == pc = "drawn"
Segments == shown.figure.bars
BarLabels == shown.figure.bar_labels
LabelsOf(idx, i) == {l \in BarLabels : l.idx = idx /\ l.x = i}
\* the sum of bucket i's values for the stack indices below idx
SegmentBottom(idx, i) == SumSeq([k \in 1..(idx - 1) |-> Segments[k].height[i]])
StackedTotal(i) == SumSeq([k \in 1..Len(Segments) |-> Segments[k].height[i]])
MaxStackedTotal ==
    LET n == Len(final_data.rows)
    IN  CHOOSE t \in {StackedTotal(i) : i \in 1..n} : \A i \in 1..n : t >= StackedTotal(i)

\* C14: with bars shown, a segment of value v <= 0 has no label; a segment
\* with v > 0 at stack index 0 (or the single bar) has one label, bottom-
\* aligned at 1% of the largest stacked bucket total; a segment with v > 0 at
\* a stack index k > 0 has one label, centred at segment_bottom + v/2.
C14_BarLabelPlacement ==
    (ChartDrawn /\ session.show_bars) =>
        /\ \A l \in BarLabels : l.idx \in 1..Len(Segments) /\ l.x \in 1..Len(final_data.rows)
        /\ \A idx \in 1..Len(Segments) : \A i \in 1..Len(final_data.rows) :
               LET v == Segments[idx].height[i]
               IN  /\ v <= 0 => LabelsOf(idx, i) = {}
                   /\ v > 0 =>
                          /\ Cardinality(LabelsOf(idx, i)) = 1
                          /\ \A l \in LabelsOf(idx, i) :
                                 /\ idx = 1 =>
                                        /\ l.va = "bottom"
                                        /\ 100 * l.y_pos.num = MaxStackedTotal * l.y_pos.den
                                 /\ idx > 1 =>
                                        /\ l.va = "center"
                                        /\ 2 * l.y_pos.num
                                               = (2 * SegmentBottom(idx, i) + v) * l.y_pos.den

\* C14 witness: a stacked chart with a bucket whose two segments are both
\* positive, the lower labelled at the bottom and the upper centred above a
\* non-zero segment bottom, and with a negative upper segment without label.
C14_Witness ==
    /\ ChartDrawn /\ session.show_bars /\ category_column # None
    /\ \E i, j \in 1..Len(final_data.rows) :
           /\ Segments[1].height[i] > 0 /\ Segments[2].height[i] > 0
           /\ \E l \in LabelsOf(1, i) : l.va = "bottom"
           /\ \E l \in LabelsOf(2, i) : l.va = "center" /\ l.y_pos = Frac(6, 2)
           /\ Segments[2].height[j] < 0 /\ LabelsOf(2, j) = {}

\* C15: a bar label is white iff the luminance 0.2126 R + 0.7152 G + 0.0722 B
\* of the fill colour of its segment is strictly below 0.5, and black
\* otherwise; a segment filled #000000 has a white label and one filled
\* #FFFFFF a black one.
C15_LabelContrast ==
    ChartDrawn =>
        \A l \in BarLabels :
            LET fill == Segments[l.idx].color
                rgb == ToRgb(fill)
                dark == 2126 * rgb[1] * 2 + 7152 * rgb[2] * 2 + 722 * rgb[3] * 2 < 10000 * 255
            IN  /\ rgb # InvalidColor
                /\ l.color = (IF dark THEN "#FFFFFF" ELSE "#000000")
                /\ fill = "#000000" => l.color = "#FFFFFF"
                /\ fill = "#FFFFFF" => l.color = "#000000"

\* C15 witness: a stacked chart with a labelled black segment (white label)
\* and a labelled white segment (black label).
C15_Witness ==
    /\ ChartDrawn
    /\ \E l \in BarLabels : Segments[l.idx].color = "#000000" /\ l.color = "#FFFFFF"
    /\ \E l \in BarLabels : Segments[l.idx].color = "#FFFFFF" /\ l.color = "#000000"

(***************************************************************************)
(* Claims about the page (checked under SpecApp).                          *)
(***************************************************************************)
\* C9: after any sequence of user actions, the PNG and the SVG bound to the
\* download buttons in a run that renders a chart are the exports of the
\* figure that this run renders.
C9_DownloadsMatchChart ==
    pc = "rendered" =>
        /\ download_png = SaveFig(shown.figure, "png")
        /\ download_svg = SaveFig(shown.figure, "svg")

\* the categories of the bars of the chart on screen, from the bottom of the
\* stack upwards
StackedCategories ==
    [k \in 1..Len(shown.figure.bars) |->
        CHOOSE c \in DOMAIN final_data.rows[1].values : AsStr(c) = shown.figure.bars[k].label]
ListPosition(c) ==
    CHOOSE i \in 1..Len(session.sorted_categories) : session.sorted_categories[i] = c

\* C17: with a category column, the sidebar gives the n categories of the
\* drag list the distinct orders 1..n, n for the one at the top of the list,
\* and the chart stacks its categories in ascending order, so that a category
\* higher in the list is higher in the stack, whatever the column order of
\* the aggregated data.
C17_StackOrder ==
    /\ (ConfigShown /\ session.category_column # None) =>
           LET listed == session.sorted_categories
               n == Len(listed)
           IN  /\ Range(listed) \subseteq DOMAIN session.category_order
               /\ {session.category_order[c] : c \in Range(listed)} = 1..n
               /\ \A i \in 1..n : session.category_order[listed[i]] = n - (i - 1)
    /\ (pc = "rendered" /\ session.category_column # None /\ session.show_bars) =>
           LET stack == StackedCategories
           IN  /\ Range(stack) = DOMAIN final_data.rows[1].values
               /\ Range(stack) \subseteq Range(session.sorted_categories)
               /\ \A k, l \in 1..Len(stack) :
                      k < l => /\ session.category_order[stack[k]]
                                      < session.category_order[stack[l]]
                               /\ ListPosition(stack[k]) > ListPosition(stack[l])

\* C17 witness: a chart whose stack is B below A, against the column order
\* A, B of the aggregated data, under a drag list with A at the top.
C17_Witness ==
    /\ pc = "rendered" /\ session.category_column # None /\ session.show_bars
    /\ session.sorted_categories = <<StrCell("A"), StrCell("B")>>
    /\ StackedCategories = <<StrCell("B"), StrCell("A")>>
    /\ SortedCells(DOMAIN final_data.rows[1].values) = <<StrCell("A"), StrCell("B")>>

IsParseable(date) == date.month \in 1..12
HasDateColumn(file) == file.date_header.name \in {DATE_COLUMN, ALT_DATE_COLUMN}
HasValueColumn(file) == file.value_header.name \in {VALUE_COLUMN, ALT_VALUE_COLUMN}
CoreNotCalled ==
    /\ df_filtered = <<>>
    /\ final_data = NoFrame
    /\ process_error = None
    /\ shown = NoChart

\* C18: load_data matches the column names after trimming; without the date
\* column (the value column) under either of its names it returns no data and
\* an error naming both names of that column, and the run stops before
\* filtering, aggregation and rendering; with them, the data has the columns
\* under their primary names.
C18_MissingColumns ==
    uploaded_file # NoFile =>
        LET loaded == LoadData(uploaded_file)
        IN  /\ ~HasDateColumn(uploaded_file) =>
                   /\ loaded.data = NoFrame
                   /\ loaded.error.names = {DATE_COLUMN, ALT_DATE_COLUMN}
            /\ (HasDateColumn(uploaded_file) /\ ~HasValueColumn(uploaded_file)) =>
                   /\ loaded.data = NoFrame
                   /\ loaded.error.names = {VALUE_COLUMN, ALT_VALUE_COLUMN}
            /\ (~HasDateColumn(uploaded_file) \/ ~HasValueColumn(uploaded_file)) =>
                   /\ pc = "load_error"
                   /\ CoreNotCalled
            /\ (HasDateColumn(uploaded_file) /\ HasValueColumn(uploaded_file)) =>
                   /\ ~loaded.data.none
                   /\ loaded.error = None
                   /\ {DATE_COLUMN, VALUE_COLUMN} \subseteq loaded.data.columns
                   /\ pc # "load_error"
                   /\ df_base = loaded.data.rows

\* C18 witness: a file with the alias of the value column, padded with
\* blanks, has been loaded and its chart rendered.
C18_Witness ==
    /\ uploaded_file # NoFile
    /\ uploaded_file.value_header = Header(ALT_VALUE_COLUMN, TRUE)
    /\ pc = "rendered"
    /\ session.original_value_column = "received"

\* C19: rows with an unparseable date are dropped without an error, and a run
\* on a file all of whose rows are dropped ends in process_data's error 'No
\* data available for the selected year range.', not in another failure.
C19_AllDatesDropped ==
    (/\ uploaded_file # NoFile
     /\ HasDateColumn(uploaded_file) /\ HasValueColumn(uploaded_file)) =>
        /\ LoadData(uploaded_file).error = None
        /\ df_base = SelectSeq(uploaded_file.rows, LAMBDA r : IsParseable(r.date))
        /\ (\A r \in Range(uploaded_file.rows) : ~IsParseable(r.date)) =>
               /\ pc = "range_empty"
               /\ process_error = NO_DATA_MSG

\* C20: the configuration in session state always has start year <= end year
\* and bars or line switched on, and so has every configuration handed to
\* process_data and generate_chart; a run whose selection breaks either rule
\* stops without calling them and leaves the stored range and switches as
\* they were.
C20_StoredConfigValid ==
    /\ [](/\ session.year_range[1] <= session.year_range[2]
          /\ session.show_bars \/ session.show_line
          /\ year_range = session.year_range
          /\ pc \in {"range_stop", "elements_stop"} => CoreNotCalled)
    /\ [][pc' \in {"range_stop", "elements_stop"} =>
              /\ session'.year_range = session.year_range
              /\ session'.show_bars = session.show_bars
              /\ session'.show_line = session.show_line]_vars

\* C20 witness: a run has stopped on a start year after the end year, with a
\* valid range other than the initial one in session state.
C20_Witness ==
    /\ pc = "range_stop"
    /\ session.year_range # <<1900, 2100>>
    /\ session.year_range[1] <= session.year_range[2]

(***************************************************************************)
(* Prediction mode of the chart assembly                                   *)
(***************************************************************************)
\* the prediction-start years that split the drawn buckets
PredictionStartYears ==
    {final_data.rows[i].time_period : i \in 1..Len(final_data.rows)}
Predicted(i, prediction_start) == final_data.rows[i].time_period >= prediction_start
\* the hatch bucket i of the bars at stack index idx is filled with: one bar
\* call draws all the buckets of a stack index
BucketHatch(idx, i) == Segments[idx].hatch
PredictedLabels ==
    {"Amount raised (Predicted)", "Total amount received (Predicted)",
     "Number of deals (Predicted)", "A (Predicted)", "B (Predicted)"}
LegendLabels == {shown.figure.legend[k].label : k \in 1..Len(shown.figure.legend)}
Plots == {shown.figure.plots[k] : k \in 1..Len(shown.figure.plots)}
\* the last bucket before the prediction start, 0 when there is none
LastActual(prediction_start) ==
    Cardinality({i \in 1..Len(final_data.rows) : ~Predicted(i, prediction_start)})

\* C21: a drawn chart, for every prediction-start year among its buckets'
\* years: with bars shown, the bars of a bucket are hatched exactly when the
\* bucket's year is at or after the prediction start; the legend has an entry
\* labelled "(Predicted)"; and with the line shown and an actual bucket
\* before the prediction start, a dashed line segment starts at the last
\* actual point.
C21_PredictionMode ==
    ChartDrawn =>
        \A prediction_start \in PredictionStartYears :
            /\ session.show_bars =>
                   \A idx \in 1..Len(Segments), i \in 1..Len(final_data.rows) :
                       Predicted(i, prediction_start) <=> BucketHatch(idx, i) # None
            /\ LegendLabels \cap PredictedLabels # {}
            /\ (session.show_line /\ LastActual(prediction_start) >= 1) =>
                   \E plot \in Plots : /\ plot.linestyle = "--"
                                       /\ plot.first = LastActual(prediction_start)

(***************************************************************************)
(* Runs that end in the main area's errors                                 *)
(***************************************************************************)
\* no row of the filtered data, or none of its rows in the selected range
NothingToDraw == df_filtered = <<>> \/ InRangeRows = {}

\* C22: a run that reaches the main area with no row left by the filter, or
\* with no filtered row in the selected year range, ends in the error of that
\* case ("filter_empty", or "range_empty" with process_data's message), no
\* chart is drawn, and buf_png and buf_svg in session state are what they
\* were before the run.
C22_ErrorRunKeepsBuffers ==
    [][(ConfigShown' /\ NothingToDraw') =>
           /\ pc' = (IF df_filtered' = <<>> THEN "filter_empty" ELSE "range_empty")
           /\ pc' = "range_empty" => process_error' = NO_DATA_MSG
           /\ shown' = NoChart
           /\ session'.buf_png = session.buf_png
           /\ session'.buf_svg = session.buf_svg]_vars

\* C22 witness: a run has ended in the empty-range error with the exports of
\* an earlier chart still in session state.
C22_Witness ==
    /\ pc = "range_empty"
    /\ process_error = NO_DATA_MSG
    /\ session.buf_png.format = "png"
    /\ session.buf_svg.format = "svg"

====
